---- MODULE Spec2Model ----
(***************************************************************************)
(* A model of ozi-fix (src/ozi/fix.py): the RewriteCommand builder, the    *)
(* Rewriter batch with its += / -= operators over a project tree,          *)
(* report_missing, the comparison of the tree with the file schema, and    *)
(* pkg_info_extra, the parser of the classifiers kept in PKG-INFO.         *)
(*                                                                         *)
(* Paths are sequences of path components (pathlib.Path.parts); the        *)
(* filesystem is a function from the paths the program can touch to what   *)
(* is found there.  warn() reports and execution continues under the       *)
(* interpreter's default filter (warnfilter = "default"); it raises the    *)
(* RuntimeWarning when warnings are turned into errors ("error").          *)
(***************************************************************************)
EXTENDS Naturals, Sequences, FiniteSets, TLC

VARIABLES
    cmd,        \* a RewriteCommand instance (fix.py:310-320)
    cmdcall,    \* the last add/rem call made on cmd and how it ended
    fix,        \* Rewriter.fix (fix.py:358)
    commands,   \* Rewriter.commands (fix.py:359)
    fs,         \* the project tree on disk
    call,       \* the last += / -= call on the Rewriter and how it ended
    warnfilter, \* the warnings filter in force for RuntimeWarning
    pkg_info,   \* the headers message_from_file reads from PKG-INFO
    payload,    \* the text handed to pkg_info_extra
    parsed,     \* how the last pkg_info_extra call ended
    result      \* how the last report_missing call ended

vars == <<cmd, cmdcall, fix, commands, fs, call, warnfilter, pkg_info,
          payload, parsed, result>>

(***************************************************************************)
(* Bounds of the model.                                                    *)
(***************************************************************************)
MaxSources == 3     \* add/rem calls made on one RewriteCommand
MaxPaths == 2       \* length of the list handed to += / -=
MaxLines == 3       \* lines that follow the marker line in a payload

Categories == {"root", "source", "test"}
Kinds == {"files", "children"}

(***************************************************************************)
(* RewriteCommand (fix.py:310-349)                                         *)
(***************************************************************************)
\* The dataclass defaults: RewriteCommand().
NewRewriteCommand ==
    [active |-> FALSE, type |-> "target", target |-> "", operation |-> "",
     sources |-> <<>>, subdir |-> "", target_type |-> ""]

\* The identifier _body composes: mode + '_' + kind.
TargetId(mode, kind) == mode \o "_" \o kind

\* _body with the target rebound on every call.
BodyRebind(c, mode, kind) ==
    [obj |-> [c EXCEPT !.active = TRUE, !.target = TargetId(mode, kind)],
     raised |-> "none"]

\* _body: marks the instance active, then binds the target or raises.
\* Returns the instance as the call leaves it and the exception raised.
Body(c, mode, kind) ==
    LET a == [c EXCEPT !.active = TRUE]
        target == TargetId(mode, kind)
        mode_set == a.target = target \/ a.target = ""
    IN  IF mode_set
        THEN [obj |-> [a EXCEPT !.target = target], raised |-> "none"]
        ELSE [obj |-> a, raised |-> "ValueError"]

\* add testing the target before it touches the instance.
AddChecksFirst(c, mode, kind, source) ==
    IF c.target # "" /\ c.target # TargetId(mode, kind)
    THEN [obj |-> c, raised |-> "ValueError"]
    ELSE Body([c EXCEPT !.sources = Append(@, source),
                        !.operation = "src_add"], mode, kind)

\* add: appends the source, tags the operation, then _body.
Add(c, mode, kind, source) ==
    Body([c EXCEPT !.sources = Append(@, source), !.operation = "src_add"],
         mode, kind)

\* rem with the operation tag of add.
RemTaggedAdd(c, mode, kind, source) ==
    Body([c EXCEPT !.sources = Append(@, source), !.operation = "src_add"],
         mode, kind)

\* rem: appends the source, tags the operation, then _body.
Rem(c, mode, kind, source) ==
    Body([c EXCEPT !.sources = Append(@, source), !.operation = "src_rem"],
         mode, kind)

\* asdict(cmd) without the 'active' key: the record appended to commands.
Render(c) ==
    [type |-> c.type, target |-> c.target, operation |-> c.operation,
     sources |-> c.sources, subdir |-> c.subdir, target_type |-> c.target_type]

(***************************************************************************)
(* Paths and the filesystem (pathlib.Path as used by fix.py:367-414)       *)
(***************************************************************************)
Target == "target"      \* the project directory (Rewriter.target, target)
DeclaredName == "My.Pkg"    \* the Name header of PKG-INFO
Name == "my_pkg"        \* Rewriter.name: underscorify of the normalized name
Tests == "tests"        \* the literal 'tests' of fix.py:371,404,268
Stub == "meson.build"   \* the literal 'meson.build' of fix.py:374-377,412

\* The strings a caller may pass in the list handed to += / -=.
InputPaths == {"foo/", "bar.py"}

\* Path(file).parts: a trailing slash is dropped.
Parts(file) ==
    CASE file = "foo/" -> <<"foo">>
      [] file = "foo" -> <<"foo">>
      [] file = "bar.py" -> <<"bar.py">>
      [] OTHER -> <<file>>

\* str(path): the components joined with '/'.
RECURSIVE PosixStr(_)
PosixStr(parts) ==
    IF Len(parts) = 0 THEN "."
    ELSE IF Len(parts) = 1 THEN parts[1]
    ELSE parts[1] \o "/" \o PosixStr(Tail(parts))

\* What is found at a path.  A directory holds a build stub or not
\* ("none", "old": there before the run, "empty": touched, "rendered":
\* written from the template) and other entries or not.
Absent == [kind |-> "absent", stub |-> "none", other |-> FALSE]
File == [kind |-> "file", stub |-> "none", other |-> FALSE]
Dir(stub, other) == [kind |-> "dir", stub |-> stub, other |-> other]
EmptyDir == Dir("none", FALSE)

KindAt(f, p) == IF p \in DOMAIN f THEN f[p].kind ELSE "absent"
\* Path.exists / Path.is_dir / Path.is_file
exists(f, p) == KindAt(f, p) # "absent"
is_dir(f, p) == KindAt(f, p) = "dir"
is_file(f, p) == KindAt(f, p) = "file"
IsEmptyDir(f, p) == is_dir(f, p) /\ f[p].stub = "none" /\ ~f[p].other
Parent(p) == SubSeq(p, 1, Len(p) - 1)

\* Path.rmdir(): removes an empty directory, OSError otherwise.
rmdir(f, p) ==
    IF ~exists(f, p) THEN [fs |-> f, raised |-> "FileNotFoundError"]
    ELSE IF ~is_dir(f, p) THEN [fs |-> f, raised |-> "NotADirectoryError"]
    ELSE IF ~IsEmptyDir(f, p) THEN [fs |-> f, raised |-> "OSError"]
    ELSE [fs |-> [f EXCEPT ![p] = Absent], raised |-> "none"]

\* Path.mkdir() with its defaults parents=False, exist_ok=False.
mkdir(f, p) ==
    IF exists(f, p) THEN [fs |-> f, raised |-> "FileExistsError"]
    ELSE IF Len(p) > 1 /\ ~is_dir(f, Parent(p))
    THEN [fs |-> f, raised |-> "FileNotFoundError"]
    ELSE [fs |-> [f EXCEPT ![p] = EmptyDir], raised |-> "none"]

\* (child / 'meson.build').touch(), then open(..., 'w') and
\* f.write(template.render()) on a directory child.
WriteStub(f, p) == [f EXCEPT ![p].stub = "rendered"]

(***************************************************************************)
(* pkg_info_extra and the pep639 grammar (fix.py:150-178)                  *)
(***************************************************************************)
\* A text is the sequence of its characters: one-character strings, for
\* the spaces outside ASCII the names pyparsing gives them, and for a letter
\* outside ASCII its code point ("<U+0131>": dotless i, "<U+017F>": long s).
Chars(str) == [i \in 1..Len(str) |-> SubSeq(str, i, i)]
UnicodeSpaces ==
    {"<NBSP>", "<OGHAM_SPACE_MARK>", "<MONGOLIAN_VOWEL_SEPARATOR>",
     "<EN_QUAD>", "<EM_QUAD>", "<EN_SPACE>", "<EM_SPACE>",
     "<THREE-PER-EM_SPACE>", "<FOUR-PER-EM_SPACE>", "<SIX-PER-EM_SPACE>",
     "<FIGURE_SPACE>", "<PUNCTUATION_SPACE>", "<THIN_SPACE>", "<HAIR_SPACE>",
     "<ZERO_WIDTH_SPACE>", "<NNBSP>", "<MMSP>", "<IDEOGRAPHIC_SPACE>"}

\* A payload: whether it opens with the marker line, and the lines after
\* it.  A line is its key and its value: the string written as the value of
\* '  Classifier: <key> :: <value>' for the two keys of the grammar, and the
\* text of the whole line for any other line (key "text").
ExpressionValues == {"MIT", "Apache-2.0", "Apache-2.0 WITH LLVM-exception"}
FileValues == {"LICENSE", "LICENSE.txt", "LICENSE.md", "LICENSE.txt.bak"}
TextValues ==
    {<<>>, <<" ">>, <<" ", " ", " ">>, <<"\t">>, <<"<NBSP>">>,
     Chars("See LICENSE.txt"), Chars(".. oz") \o <<"<U+0131>">>,
     Chars(".. ozi") \o <<"<U+017F>">>}
ClassifierLines ==
    {[key |-> "License-Expression", value |-> v] : v \in ExpressionValues}
    \cup {[key |-> "License-File", value |-> v] : v \in FileValues}
TextLines == {[key |-> "text", value |-> v] : v \in TextValues}
\* The header of the tests: the marker and one line for each key.
HeaderPayload ==
    [marker |-> TRUE,
     lines |-> <<[key |-> "License-Expression",
                  value |-> "Apache-2.0 WITH LLVM-exception"],
                 [key |-> "License-File", value |-> "LICENSE.txt"]>>]

\* The text of a line, and of a payload: the marker line when there is one,
\* then the lines, each line ended by a newline.
LineText(line) ==
    IF line.key = "text" THEN line.value
    ELSE Chars("  Classifier: " \o line.key \o " :: " \o line.value)
RECURSIVE LinesText(_)
LinesText(lines) ==
    IF Len(lines) = 0 THEN <<>>
    ELSE LineText(lines[1]) \o <<"\n">> \o LinesText(Tail(lines))
PayloadText(text) ==
    (IF text.marker THEN Chars(".. OZI\n") ELSE <<>>) \o LinesText(text.lines)

\* str.expandtabs(): a tab becomes the spaces up to the next tab stop, 8
\* columns apart, and a line end starts the columns again.  ExpandRange
\* gives the expansion of the characters lo..hi of s, reached at column col
\* (modulo 8), and the column after them; it halves the range.
Spaces(n) == [k \in 1..n |-> " "]
ExpandChar(c, col) ==
    IF c = "\t" THEN [text |-> Spaces(8 - col), col |-> 0]
    ELSE IF c \in {"\n", "\r"} THEN [text |-> <<c>>, col |-> 0]
    ELSE [text |-> <<c>>, col |-> (col + 1) % 8]
Joined(left, right) ==
    [text |-> left.text \o right.text, col |-> right.col]
RECURSIVE ExpandRange(_, _, _, _)
ExpandRest(left, s, mid, hi) ==
    Joined(left, ExpandRange(s, mid + 1, hi, left.col))
ExpandRange(s, lo, hi, col) ==
    IF lo > hi THEN [text |-> <<>>, col |-> col]
    ELSE IF lo = hi THEN ExpandChar(s[lo], col)
    ELSE ExpandRest(ExpandRange(s, lo, (lo + hi) \div 2, col),
                    s, (lo + hi) \div 2, hi)
expandtabs(s) == ExpandRange(s, 1, Len(s), 0).text

\* The grammar reads a text s from a position i (the first character is at
\* 1); an expression gives the position after its match, 0 when it does not
\* match.  A literal p is given as a string.
Ch(s, i) == s[i]
StartsWithAt(s, i, p) ==
    i + Len(p) - 1 <= Len(s) /\ SubSeq(s, i, i + Len(p) - 1) = Chars(p)
RECURSIVE SkipChars(_, _, _)
SkipChars(s, i, chars) ==
    IF i <= Len(s) /\ Ch(s, i) \in chars THEN SkipChars(s, i + 1, chars)
    ELSE i

\* pyparsing's default whitespace, the whitespace White knows, and the
\* characters a Keyword may not touch.
DefaultWhiteChars == {" ", "\n", "\t", "\r"}
WhiteStrs == {" ", "\t", "\n", "\r", "\f"} \cup UnicodeSpaces
IdentText == "abcdefghijklmnopqrstuvwxyzABCDEFGHIJKLMNOPQRSTUVWXYZ0123456789_$"
IdentChars == {SubSeq(IdentText, i, i) : i \in 1..Len(IdentText)}

\* An expression handed the position 0 does not match: the expression
\* before it in the sequence did not.
\* White(' ', min=lo) and White(' ', exact=1): the whitespace other than
\* the space is skipped, then a run of spaces is taken from there (j to k),
\* at most hi of them (hi = 0: no limit), and the match fails on fewer
\* than lo.
SpaceRun(j, k, lo, hi) ==
    IF k - j < lo THEN 0 ELSE IF hi > 0 /\ k - j > hi THEN j + hi ELSE k
SpacesAt(s, j, lo, hi) == SpaceRun(j, SkipChars(s, j, {" "}), lo, hi)
White(s, i, lo, hi) ==
    IF i = 0 THEN 0
    ELSE SpacesAt(s, SkipChars(s, i, WhiteStrs \ {" "}), lo, hi)

\* Keyword(kw): the default whitespace is skipped, then kw is matched where
\* no identifier character comes right before or right after it.
KeywordAt(s, j, kw) ==
    IF /\ StartsWithAt(s, j, kw)
       /\ (j = 1 \/ Ch(s, j - 1) \notin IdentChars)
       /\ (j + Len(kw) > Len(s) \/ Ch(s, j + Len(kw)) \notin IdentChars)
    THEN j + Len(kw) ELSE 0
Keyword(s, i, kw) ==
    IF i = 0 THEN 0 ELSE KeywordAt(s, SkipChars(s, i, DefaultWhiteChars), kw)

\* str.upper() of one character: the ASCII letters, and the two letters
\* outside ASCII whose upper case is an ASCII letter, dotless i and long s.
LowerText == "abcdefghijklmnopqrstuvwxyz"
UpperText == "ABCDEFGHIJKLMNOPQRSTUVWXYZ"
upper(c) ==
    IF c = "<U+0131>" THEN "I"
    ELSE IF c = "<U+017F>" THEN "S"
    ELSE IF \E i \in 1..Len(LowerText) : SubSeq(LowerText, i, i) = c
    THEN LET i == CHOOSE k \in 1..Len(LowerText) : SubSeq(LowerText, k, k) = c
         IN  SubSeq(UpperText, i, i)
    ELSE c

\* CaselessKeyword('ozi'): the default whitespace is skipped, then the upper
\* case of the next three characters is compared with 'OZI', and the upper
\* case of the character right before and right after them may not be one of
\* the identifier characters in upper case.
caselessmatch == "OZI"
UpperIdentChars == {upper(c) : c \in IdentChars}
CaselessKeywordAt(s, j) ==
    IF /\ j + Len(caselessmatch) - 1 <= Len(s)
       /\ [k \in 1..Len(caselessmatch) |-> upper(s[j + k - 1])]
             = Chars(caselessmatch)
       /\ (j = 1 \/ upper(s[j - 1]) \notin UpperIdentChars)
       /\ \/ j + Len(caselessmatch) > Len(s)
          \/ upper(s[j + Len(caselessmatch)]) \notin UpperIdentChars
    THEN j + Len(caselessmatch) ELSE 0
CaselessKeyword(s, i) ==
    IF i = 0 THEN 0
    ELSE CaselessKeywordAt(s, SkipChars(s, i, DefaultWhiteChars))

\* oneOf(['LICENSE', 'LICENSE.txt']): the text matched at position i, the
\* longer alternative tried first; "" when neither matches.  What follows
\* the match is left unread.
oneOf(s, i) ==
    IF StartsWithAt(s, i, "LICENSE.txt") THEN "LICENSE.txt"
    ELSE IF StartsWithAt(s, i, "LICENSE") THEN "LICENSE"
    ELSE ""

\* Combine(spdx_license_expression, join_string=' '): the text matched at
\* position i, an expression and its WITH clause taken whole; "" when no
\* expression matches.
Longest(found) ==
    IF found = {} THEN ""
    ELSE CHOOSE v \in found : \A w \in found : Len(w) <= Len(v)
spdx_license_expression(s, i) ==
    Longest({v \in ExpressionValues : StartsWithAt(s, i, v)})

\* A dict of str to str, as the sequence of its items in insertion order.
\* The parse action of one line: {str(t[0]): str(t[1])}.
LineDict(t) == <<<<t[1], t[2]>>>>
HasKey(d, k) == \E i \in 1..Len(d) : d[i][1] = k

\* d | {k: v}: an existing key keeps its place and takes the new value, a
\* new key goes last.
SetItem(d, k, v) ==
    IF HasKey(d, k)
    THEN [i \in 1..Len(d) |-> IF d[i][1] = k THEN <<k, v>> ELSE d[i]]
    ELSE Append(d, <<k, v>>)

\* a | b for two dicts.
RECURSIVE DictUnion(_, _)
DictUnion(a, b) ==
    IF Len(b) = 0 THEN a
    ELSE DictUnion(SetItem(a, b[1][1], b[1][2]), Tail(b))

\* Keyword(key) + dcolon + value at position i: the tokens of the match
\* and the position after it.
NoMatch == [next |-> 0, toks |-> <<>>]
Tokens(v, key, m) ==
    IF m = "" THEN NoMatch ELSE [next |-> v + Len(m), toks |-> <<key, m>>]
ValueAt(s, v, key) ==
    Tokens(v, key, IF key = "License-File" THEN oneOf(s, v)
                   ELSE spdx_license_expression(s, v))
Value(s, d, key) ==
    IF d = 0 THEN NoMatch
    ELSE ValueAt(s, SkipChars(s, d, DefaultWhiteChars), key)
KeyValue(s, i, key) == Value(s, Keyword(s, Keyword(s, i, key), "::"), key)

\* The alternatives a | b at position c: b is tried when a does not match.
OrElse(e, s, c) == IF e.next # 0 THEN e ELSE KeyValue(s, c, "License-File")
MatchFirst(s, c) == OrElse(KeyValue(s, c, "License-Expression"), s, c)

\* One repetition of the OneOrMore at position i (fix.py:157-165): the
\* indentation, 'Classifier:', one space, then the first of the two
\* alternatives that matches, with the parse action of the line.
LineAction(f) ==
    IF f.next = 0 THEN [next |-> 0, dict |-> <<>>]
    ELSE [next |-> f.next, dict |-> LineDict(f.toks)]
Classifier(s, i) ==
    LineAction(MatchFirst(s, White(s, Keyword(s, White(s, i, 2, 0),
                                              "Classifier:"), 1, 1)))

\* OneOrMore(...) from position i: one dict for each repetition matched, up
\* to the first that does not match.
RECURSIVE OneOrMore(_, _)
Repeat(r, s) ==
    IF r.next = 0 THEN <<>> ELSE <<r.dict>> \o OneOrMore(s, r.next)
OneOrMore(s, i) == Repeat(Classifier(s, i), s)

\* The dicts the OneOrMore matches on the lines that follow the marker.
MatchedLines(lines) == OneOrMore(expandtabs(LinesText(lines)), 1)

\* _str_dict_union, the parse action on the OneOrMore: toks[0] | toks[1].
\* An IndexError raised in a parse action reaches the caller as a
\* ParseException.
str_dict_union(toks) ==
    IF Len(toks) < 2 THEN [raised |-> "ParseException", tokens |-> <<>>]
    ELSE [raised |-> "none", tokens |-> <<DictUnion(toks[1], toks[2])>>]

\* pep639_parse.parse_string(payload): the tabs of the payload are
\* expanded, then the marker is matched and one or more lines; what follows
\* the last line matched is left unread.
Parsed(toks) ==
    IF Len(toks) = 0 THEN [raised |-> "ParseException", tokens |-> <<>>]
    ELSE str_dict_union(toks)
parse_expanded(s) ==
    Parsed(OneOrMore(s, CaselessKeyword(s, Keyword(s, 1, ".."))))
parse_string(instring) == parse_expanded(expandtabs(instring))
pep639_parse(text) == parse_string(PayloadText(text))

\* msg.add_header('Classifier', f'{k} :: {v}') for each item.
ClassifierHeaders(d) == [i \in 1..Len(d) |-> d[i][1] \o " :: " \o d[i][2]]

NoParsed ==
    [outcome |-> "none", code |-> "", as_message |-> FALSE, value |-> <<>>]

\* pkg_info_extra(payload, as_message): the dict parsed, or the headers of
\* the Message built from it.
pkg_info_extra(text, as_message) ==
    LET r == pep639_parse(text) IN
    IF r.raised # "none"
    THEN [NoParsed EXCEPT !.outcome = "raise", !.code = r.raised,
                          !.as_message = as_message]
    ELSE [NoParsed EXCEPT !.outcome = "return", !.as_message = as_message,
             !.value = IF as_message THEN ClassifierHeaders(r.tokens[1])
                       ELSE r.tokens[1]]

(***************************************************************************)
(* Rewriter (fix.py:352-421)                                               *)
(***************************************************************************)
\* The path += resolves for one requested file (fix.py:367-371); -= resolves
\* the same path for its routing (fix.py:393-395,404).
Child(f, file) ==
    IF f = "source" THEN <<Target, Name>> \o Parts(file)
    ELSE IF f = "test" THEN <<Target, Tests>> \o Parts(file)
    ELSE <<Target>> \o Parts(file)

\* The directory -= hands to rmdir (fix.py:397 for 'source', fix.py:406 for
\* 'test'); no rmdir is attempted for any other fix.
RmdirPath(f, file) == <<Target, Name>> \o Parts(file)
AttemptsRmdir(f) == f \in {"source", "test"}
RmdirWarning(f) ==
    IF f = "source"
    THEN "not ok - Could not remove non-empty source directory."
    ELSE "not ok - Could not remove non-empty test directory."

\* The locals of one += / -= call: the tree, the two builders, the
\* exception that ended the loop, the warnings issued so far, the index of
\* the last path the loop took up, and the warnings filter in force.
LoopStart(tree) ==
    [fs |-> tree, cmd_files |-> NewRewriteCommand,
     cmd_children |-> NewRewriteCommand, raised |-> "none", warnings |-> <<>>,
     last |-> 0, filter |-> "default"]

\* One iteration of the loop of __iadd__ (fix.py:365-379).
IAddStep(st, f, file) ==
    LET child == Child(f, file) IN
    IF is_dir(st.fs, child)
    THEN LET m == mkdir(st.fs, child) IN
         IF m.raised # "none" THEN [st EXCEPT !.raised = m.raised]
         ELSE LET r == Add(st.cmd_children, f, "children",
                           PosixStr(child \o <<Stub>>))
              IN  [st EXCEPT !.fs = WriteStub(m.fs, child),
                             !.cmd_children = r.obj, !.raised = r.raised]
    ELSE IF is_file(st.fs, child)
    THEN LET r == Add(st.cmd_files, f, "files", PosixStr(Parts(file)))
         IN  [st EXCEPT !.cmd_files = r.obj, !.raised = r.raised]
    ELSE st

\* One iteration of the loop of __isub__ (fix.py:392-414).
ISubStep(st, f, file) ==
    LET child == Child(f, file)
        rm == IF AttemptsRmdir(f) THEN rmdir(st.fs, RmdirPath(f, file))
              ELSE [fs |-> st.fs, raised |-> "none"]
        warned == IF rm.raised # "none"
                  THEN Append(st.warnings, RmdirWarning(f)) ELSE st.warnings
        s1 == [st EXCEPT !.fs = rm.fs, !.warnings = warned]
    IN
    \* warn(..., RuntimeWarning) raises when the filter is 'error'.
    IF rm.raised # "none" /\ st.filter = "error"
    THEN [s1 EXCEPT !.raised = "RuntimeWarning"]
    ELSE IF is_dir(s1.fs, child)
    THEN LET r == Rem(s1.cmd_children, f, "children",
                      PosixStr(child \o <<Stub>>))
         IN  [s1 EXCEPT !.cmd_children = r.obj, !.raised = r.raised]
    ELSE IF is_file(s1.fs, child)
    THEN LET r == Rem(s1.cmd_files, f, "files", PosixStr(Parts(file)))
         IN  [s1 EXCEPT !.cmd_files = r.obj, !.raised = r.raised]
    ELSE s1

\* for file in other: ... ; an exception leaves the loop.
RECURSIVE IAddLoop(_, _, _, _)
IAddLoop(st, f, other, i) ==
    IF i > Len(other) \/ st.raised # "none" THEN st
    ELSE IAddLoop(IAddStep([st EXCEPT !.last = i], f, other[i]),
                  f, other, i + 1)

RECURSIVE ISubLoop(_, _, _, _)
ISubLoop(st, f, other, i) ==
    IF i > Len(other) \/ st.raised # "none" THEN st
    ELSE ISubLoop(ISubStep([st EXCEPT !.last = i], f, other[i]),
                  f, other, i + 1)

\* The two builders appended whether or not they were given a source.
EmittedAlways(st) == <<Render(st.cmd_files), Render(st.cmd_children)>>

\* The two builders appended in the opposite order.
EmittedChildrenFirst(st) ==
    (IF st.cmd_children.active THEN <<Render(st.cmd_children)>> ELSE <<>>)
    \o (IF st.cmd_files.active THEN <<Render(st.cmd_files)>> ELSE <<>>)

\* The records a call appends once its loop has ended (fix.py:380-385 and
\* fix.py:415-420): the files builder, then the children builder.
Emitted(st) ==
    (IF st.cmd_files.active THEN <<Render(st.cmd_files)>> ELSE <<>>)
    \o (IF st.cmd_children.active THEN <<Render(st.cmd_children)>> ELSE <<>>)

NoCall(tree) ==
    [op |-> "none", other |-> <<>>, pre |-> tree, ncmds |-> 0,
     precmds |-> <<>>, raised |-> "none", warnings |-> <<>>, last |-> 0]

\* rewriter += other, the first call main makes on a Rewriter (fix.py:454)
IAdd(other) ==
    /\ call.op = "none"
    /\ LET st == IAddLoop([LoopStart(fs) EXCEPT !.filter = warnfilter],
                          fix, other, 1) IN
       /\ fs' = st.fs
       /\ commands' = IF st.raised = "none" THEN commands \o Emitted(st)
                      ELSE commands
       /\ call' = [op |-> "iadd", other |-> other, pre |-> fs,
                   ncmds |-> Len(commands), precmds |-> commands,
                   raised |-> st.raised, warnings |-> st.warnings,
                   last |-> st.last]
    /\ UNCHANGED <<cmd, cmdcall, fix, warnfilter, pkg_info, payload, parsed,
                   result>>

\* rewriter -= other appending its builders even when the loop was left by
\* an exception.
ISubEmitsOnAbort(other) ==
    /\ call.op \in {"none", "iadd"}
    /\ LET st == ISubLoop([LoopStart(fs) EXCEPT !.filter = warnfilter],
                          fix, other, 1) IN
       /\ fs' = st.fs
       /\ commands' = commands \o Emitted(st)
       /\ call' = [op |-> "isub", other |-> other, pre |-> fs,
                   ncmds |-> Len(commands), precmds |-> commands,
                   raised |-> st.raised, warnings |-> st.warnings,
                   last |-> st.last]
    /\ UNCHANGED <<cmd, cmdcall, fix, warnfilter, pkg_info, payload, parsed,
                   result>>

\* rewriter -= other, made on a new Rewriter or after its += (fix.py:455)
ISub(other) ==
    /\ call.op \in {"none", "iadd"}
    /\ LET st == ISubLoop([LoopStart(fs) EXCEPT !.filter = warnfilter],
                          fix, other, 1) IN
       /\ fs' = st.fs
       /\ commands' = IF st.raised = "none" THEN commands \o Emitted(st)
                      ELSE commands
       /\ call' = [op |-> "isub", other |-> other, pre |-> fs,
                   ncmds |-> Len(commands), precmds |-> commands,
                   raised |-> st.raised, warnings |-> st.warnings,
                   last |-> st.last]
    /\ UNCHANGED <<cmd, cmdcall, fix, warnfilter, pkg_info, payload, parsed,
                   result>>

\* The lists of at most MaxPaths requested paths.
PathLists == UNION {[1..n -> InputPaths] : n \in 0..MaxPaths}

\* The trees a Rewriter may be run on: the project directory with its
\* package and tests directories, and under each of the three a 'foo' that
\* is absent, a file, an empty directory, a directory holding a build stub
\* or a directory holding something else, and a 'bar.py' that is absent or
\* a file.
RewriterBases == {<<Target>>, <<Target, Name>>, <<Target, Tests>>}
RewriterLocs ==
    RewriterBases \cup {b \o <<n>> : b \in RewriterBases, n \in {"foo", "bar.py"}}
FooEntries == {Absent, File, EmptyDir, Dir("old", FALSE), Dir("none", TRUE)}
BarEntries == {Absent, File}
TreeOf(foo, bar) ==
    [p \in RewriterLocs |->
        IF p \in RewriterBases THEN Dir("none", TRUE)
        ELSE IF p[Len(p)] = "foo" THEN foo[Parent(p)]
        ELSE bar[Parent(p)]]
RewriterTrees ==
    {TreeOf(foo, bar) : foo \in [RewriterBases -> FooEntries],
                        bar \in [RewriterBases -> BarEntries]}

\* The locals of report_missing before any call.
NoResult ==
    [outcome |-> "none", code |-> "", stage |-> "none", strict |-> FALSE,
     use_tap |-> FALSE, name |-> "", miss_count |-> 0,
     found_root_files |-> <<>>, found_source_files |-> <<>>,
     found_test_files |-> <<>>, extra_root_files |-> {},
     extra_source_files |-> {}, extra_test_files |-> {}, earlier |-> {}]

NoCmdCall ==
    [op |-> "none", mode |-> "", kind |-> "", source |-> "",
     before |-> NewRewriteCommand, raised |-> "none"]

InitRewriter ==
    /\ fix \in Categories
    /\ commands = <<>>
    /\ fs \in RewriterTrees
    /\ call = NoCall(fs)
    /\ cmd = NewRewriteCommand
    /\ cmdcall = NoCmdCall
    /\ pkg_info = [Name |-> DeclaredName]
    /\ result = NoResult
    /\ payload = HeaderPayload
    /\ warnfilter = "default"
    /\ parsed = NoParsed

NextRewriter ==
    \/ \E other \in PathLists : IAdd(other)
    \/ \E other \in PathLists : ISub(other)

SpecRewriter == InitRewriter /\ [][NextRewriter]_vars

\* The same Rewriter run with RuntimeWarning turned into an error
\* (python -W error, or pytest's filterwarnings = error).
InitRewriterError ==
    /\ fix \in Categories
    /\ commands = <<>>
    /\ fs \in RewriterTrees
    /\ call = NoCall(fs)
    /\ warnfilter = "error"
    /\ cmd = NewRewriteCommand
    /\ cmdcall = NoCmdCall
    /\ pkg_info = [Name |-> DeclaredName]
    /\ payload = HeaderPayload
    /\ parsed = NoParsed
    /\ result = NoResult

SpecRewriterError == InitRewriterError /\ [][NextRewriter]_vars

(***************************************************************************)
(* report_missing (fix.py:181-307)                                         *)
(***************************************************************************)
\* ozi.assets.structure: the names expected in the project directory, in
\* the package directory and in the tests directory.
root_files == <<"README.rst", "PKG-INFO">>
source_files == <<"__init__.py", "py.typed">>
test_files == <<"meson.build">>

\* re.sub(r'[-_.]+', '-', name).lower() on the names PKG-INFO may declare.
NormalizeName(n) ==
    CASE n = "My.Pkg" -> "my-pkg"
      [] n = "my_pkg" -> "my-pkg"
      [] OTHER -> n

\* ozi.assets.underscorify on a normalized name.
underscorify(n) ==
    CASE n = "my-pkg" -> "my_pkg"
      [] OTHER -> n

\* The schema names tested at the resolved path only under the project
\* directory itself.
FoundInIgnoringBase(tree, base, files) ==
    SelectSeq(files, LAMBDA n : exists(tree, <<Target, n>>))

\* One of the three loops over a schema list (fix.py:219-229, 241-251,
\* 265-276): the names for which joinpath(...).exists(), in schema order.
FoundIn(tree, base, files) ==
    SelectSeq(files, LAMBDA n : exists(tree, base \o <<n>>))

\* What each loop adds to miss_count.
MissedIn(tree, base, files) == Len(files) - Len(FoundIn(tree, base, files))

\* [file for file in os.listdir(dir) if os.path.isfile(os.path.join(dir, file))]
RegularFiles(tree, base) ==
    {p[Len(p)] : p \in {q \in DOMAIN tree : Len(q) = Len(base) + 1
                                            /\ Parent(q) = base
                                            /\ is_file(tree, q)}}

\* os.listdir(dir): the exception it raises, "none" when dir is a directory.
listdir(tree, base) ==
    [raised |-> IF ~exists(tree, base) THEN "FileNotFoundError"
                ELSE IF ~is_dir(tree, base) THEN "NotADirectoryError"
                ELSE "none"]

\* The difference taken one way only: the files on disk that were not found.
OneSidedDifference(a, b) == a \ b

\* set(a).symmetric_difference(set(b))
SymmetricDifference(a, b) == (a \ b) \cup (b \ a)
Range(seq) == {seq[i] : i \in 1..Len(seq)}

\* report_missing(target, strict, use_tap) on a tree with the PKG-INFO
\* headers hdr: how the call ends (return, exit(code) or an exception
\* raised) and the values of its locals at that point.  The running 'count'
\* only numbers the printed lines and is left out.
ReportMissingOn(tree, hdr, strict, use_tap) ==
    LET r0 == [NoResult EXCEPT !.strict = strict, !.use_tap = use_tap]
        pkginfo == <<Target, "PKG-INFO">>
        name == NormalizeName(hdr.Name)
        srcdir == <<Target, underscorify(name)>>
        testdir == <<Target, Tests>>
        found_root == FoundIn(tree, <<Target>>, root_files)
        found_source == FoundIn(tree, srcdir, source_files)
        found_test == FoundIn(tree, testdir, test_files)
        r1 == [r0 EXCEPT !.name = name,
                 !.found_root_files = found_root,
                 !.miss_count = MissedIn(tree, <<Target>>, root_files),
                 !.extra_root_files =
                     SymmetricDifference(RegularFiles(tree, <<Target>>),
                                         Range(found_root))]
        r2 == [r1 EXCEPT !.found_source_files = found_source,
                 !.miss_count = @ + MissedIn(tree, srcdir, source_files)]
        r3 == [r2 EXCEPT
                 !.extra_source_files =
                     SymmetricDifference(RegularFiles(tree, srcdir),
                                         Range(found_source)),
                 !.found_test_files = found_test,
                 !.miss_count = @ + MissedIn(tree, testdir, test_files)]
        r4 == [r3 EXCEPT
                 !.extra_test_files =
                     SymmetricDifference(
                         IF listdir(tree, testdir).raised = "FileNotFoundError"
                         THEN {} ELSE RegularFiles(tree, testdir),
                         Range(found_test)),
                 !.stage = "done"]
    IN
    IF ~exists(tree, pkginfo)
    THEN [r0 EXCEPT !.outcome = "raise", !.code = "FileNotFoundError",
                    !.stage = "open"]
    ELSE IF is_dir(tree, pkginfo)
    THEN [r0 EXCEPT !.outcome = "raise", !.code = "IsADirectoryError",
                    !.stage = "open"]
    ELSE IF hdr.Name = "None"
    THEN [r0 EXCEPT !.outcome = "exit", !.code = "1", !.stage = "name"]
    ELSE IF listdir(tree, srcdir).raised # "none"
    THEN [r2 EXCEPT !.outcome = "raise",
                    !.code = listdir(tree, srcdir).raised,
                    !.stage = "listdir"]
    ELSE IF listdir(tree, testdir).raised
                \notin {"none", "FileNotFoundError"}
    THEN [r3 EXCEPT !.outcome = "raise",
                    !.code = listdir(tree, testdir).raised,
                    !.stage = "listdir_tests"]
    ELSE IF use_tap
    THEN [r4 EXCEPT !.outcome = "exit", !.code = "miss_count"]
    ELSE [r4 EXCEPT !.outcome = "return"]

\* report_missing(target, strict, use_tap); it reads the tree only.  The
\* field 'earlier' keeps the extra sets of the call before this one and the
\* arguments it was made with, if that call ran to its end.
ReportMissing(strict, use_tap) ==
    /\ result' = [ReportMissingOn(fs, pkg_info, strict, use_tap) EXCEPT
                     !.earlier = IF result.stage = "done"
                                 THEN {[extras |-> <<result.extra_root_files,
                                                     result.extra_source_files,
                                                     result.extra_test_files>>,
                                        strict |-> result.strict,
                                        use_tap |-> result.use_tap]}
                                 ELSE {}]
    /\ UNCHANGED <<cmd, cmdcall, fix, commands, fs, call, warnfilter, pkg_info,
                   payload, parsed>>

\* The trees report_missing may be run on: every schema name is absent, a
\* file or a directory at its place, one more regular file may lie in each
\* directory, and the package and tests directories may be absent or be
\* regular files.
MissingBases == {<<Target>>, <<Target, Name>>, <<Target, Tests>>}
SchemaOf(b) ==
    IF b = <<Target>> THEN root_files
    ELSE IF b = <<Target, Name>> THEN source_files ELSE test_files
ExtraName == "extra.txt"
MissingLocs ==
    MissingBases
    \cup {b \o <<n>> : b \in MissingBases,
                       n \in Range(root_files) \cup Range(source_files)
                             \cup Range(test_files) \cup {ExtraName}}
SchemaEntries == {Absent, File, EmptyDir}
\* The contents of one directory: its schema names and the extra name.
Contents(b) ==
    {c \in [Range(SchemaOf(b)) \cup {ExtraName} -> SchemaEntries] :
        c[ExtraName] \in {Absent, File}}
MissingTreeOf(bases, content) ==
    [p \in MissingLocs |->
        IF p = <<Target>> THEN Dir("none", TRUE)
        ELSE IF p \in MissingBases THEN bases[p]
        ELSE IF bases[Parent(p)].kind = "dir"
                /\ p[Len(p)] \in DOMAIN content[Parent(p)]
        THEN content[Parent(p)][p[Len(p)]]
        ELSE Absent]
MissingTrees ==
    {MissingTreeOf([b \in MissingBases |->
                       IF b = <<Target>> THEN Dir("none", TRUE)
                       ELSE IF b = <<Target, Name>> THEN bs ELSE bt],
                   [b \in MissingBases |->
                       IF b = <<Target>> THEN cr
                       ELSE IF b = <<Target, Name>> THEN cs ELSE ct]) :
        bs \in {Absent, File, Dir("none", TRUE)},
        bt \in {Absent, File, Dir("none", TRUE)},
        cr \in Contents(<<Target>>),
        cs \in Contents(<<Target, Name>>),
        ct \in Contents(<<Target, Tests>>)}

InitMissing ==
    /\ fs \in MissingTrees
    /\ pkg_info \in {[Name |-> DeclaredName], [Name |-> "None"]}
    /\ result = NoResult
    /\ payload = HeaderPayload
    /\ warnfilter = "default"
    /\ parsed = NoParsed
    /\ fix = "missing"
    /\ commands = <<>>
    /\ call = NoCall([p \in {<<Target>>} |-> Dir("none", TRUE)])
    /\ cmd = NewRewriteCommand
    /\ cmdcall = NoCmdCall

NextMissing == \E strict \in BOOLEAN, use_tap \in BOOLEAN :
                   ReportMissing(strict, use_tap)

SpecMissing == InitMissing /\ [][NextMissing]_vars

(***************************************************************************)
(* pkg_info_extra called on payloads of up to MaxLines lines.              *)
(***************************************************************************)
Payloads ==
    {[marker |-> mk, lines |-> ls] :
        mk \in BOOLEAN,
        ls \in UNION {[1..n -> ClassifierLines \cup TextLines] :
                         n \in 0..MaxLines}}

\* pkg_info_extra(payload, as_message)
PkgInfoExtra(as_message) ==
    /\ parsed' = pkg_info_extra(payload, as_message)
    /\ UNCHANGED <<cmd, cmdcall, fix, commands, fs, call, warnfilter, pkg_info,
                   payload, result>>

InitParser ==
    /\ payload \in Payloads
    /\ warnfilter = "default"
    /\ parsed = NoParsed
    /\ pkg_info = [Name |-> DeclaredName]
    /\ fix = "missing"
    /\ commands = <<>>
    /\ fs = [p \in {<<Target>>} |-> Dir("none", TRUE)]
    /\ call = NoCall(fs)
    /\ cmd = NewRewriteCommand
    /\ cmdcall = NoCmdCall
    /\ result = NoResult

NextParser == \E as_message \in BOOLEAN : PkgInfoExtra(as_message)

SpecParser == InitParser /\ [][NextParser]_vars

(***************************************************************************)
(* A RewriteCommand driven directly through add and rem.                   *)
(***************************************************************************)
SourceStrings == {"a.py", "b/meson.build"}

\* cmd.add(mode, kind, source)
CmdAdd(mode, kind, source) ==
    /\ Len(cmd.sources) < MaxSources
    /\ LET r == Add(cmd, mode, kind, source) IN
       /\ cmd' = r.obj
       /\ cmdcall' = [op |-> "add", mode |-> mode, kind |-> kind,
                      source |-> source, before |-> cmd, raised |-> r.raised]
    /\ UNCHANGED <<fix, commands, fs, call, warnfilter, pkg_info, payload,
                   parsed, result>>

\* cmd.rem(mode, kind, source)
CmdRem(mode, kind, source) ==
    /\ Len(cmd.sources) < MaxSources
    /\ LET r == Rem(cmd, mode, kind, source) IN
       /\ cmd' = r.obj
       /\ cmdcall' = [op |-> "rem", mode |-> mode, kind |-> kind,
                      source |-> source, before |-> cmd, raised |-> r.raised]
    /\ UNCHANGED <<fix, commands, fs, call, warnfilter, pkg_info, payload,
                   parsed, result>>

InitCmd ==
    /\ cmd = NewRewriteCommand
    /\ cmdcall = NoCmdCall
    /\ fix = "root"
    /\ commands = <<>>
    /\ fs = [p \in {<<Target>>} |-> Dir("none", TRUE)]
    /\ call = NoCall(fs)
    /\ pkg_info = [Name |-> DeclaredName]
    /\ result = NoResult
    /\ payload = HeaderPayload
    /\ warnfilter = "default"
    /\ parsed = NoParsed

NextCmd ==
    \/ \E mode \in Categories, kind \in Kinds, source \in SourceStrings :
          CmdAdd(mode, kind, source)
    \/ \E mode \in Categories, kind \in Kinds, source \in SourceStrings :
          CmdRem(mode, kind, source)

SpecCmd == InitCmd /\ [][NextCmd]_vars

(***************************************************************************)
(* Claims about RewriteCommand                                             *)
(***************************************************************************)
\* C1: on an instance whose target is already bound, an add/rem call naming
\* a different identifier {category}_{kind} raises ValueError, a call naming
\* the bound identifier succeeds, and either way the target is what it was
\* before the call.
C1_TargetImmutable ==
    (cmdcall.op # "none" /\ cmdcall.before.target # "") =>
        /\ cmd.target = cmdcall.before.target
        /\ (cmdcall.mode \o "_" \o cmdcall.kind # cmdcall.before.target
              => cmdcall.raised = "ValueError")
        /\ (cmdcall.mode \o "_" \o cmdcall.kind = cmdcall.before.target
              => cmdcall.raised = "none")

\* C1 witness: source_files bound twice, then source_children refused.
C1_Witness ==
    /\ cmdcall.op # "none"
    /\ cmdcall.before.target = "source_files"
    /\ Len(cmdcall.before.sources) = 2
    /\ cmdcall.mode = "source" /\ cmdcall.kind = "children"
    /\ cmdcall.raised = "ValueError"
    /\ cmd.target = "source_files"

(***************************************************************************)
(* Claims about Rewriter.__iadd__ and Rewriter.__isub__                    *)
(***************************************************************************)
\* The records the last call appended to commands.
NewCmds == SubSeq(commands, call.ncmds + 1, Len(commands))
\* The indices of the last call's list whose path resolved, before the
\* call, to something of the given kind.
Resolved(kind) ==
    {i \in 1..Len(call.other) : KindAt(call.pre, Child(fix, call.other[i])) = kind}
StubPath(file) == PosixStr(Child(fix, file) \o <<Stub>>)
InSeq(x, seq) == \E k \in 1..Len(seq) : seq[k] = x

\* C2: one += or -= call appends at most two records: at most one
\* {category}_files record, then at most one {category}_children record.
C2_AtMostTwoFilesFirst ==
    call.op \in {"iadd", "isub"} =>
        /\ Len(NewCmds) <= 2
        /\ \A k \in 1..Len(NewCmds) :
              NewCmds[k].target \in {fix \o "_files", fix \o "_children"}
        /\ Len(NewCmds) = 2 =>
              /\ NewCmds[1].target = fix \o "_files"
              /\ NewCmds[2].target = fix \o "_children"

\* C2 witness: a call given a file and a directory appended two records.
C2_Witness ==
    /\ call.op = "isub"
    /\ Len(call.other) = 2
    /\ Resolved("file") # {} /\ Resolved("dir") # {}
    /\ Len(NewCmds) = 2

\* C3: += on a path that resolves to an existing directory ends without an
\* error, leaves the directory holding a written build stub, and the stub's
\* path is among the sources of the children add record the call appends.
C3_AddExistingDir ==
    (call.op = "iadd" /\ Resolved("dir") # {}) =>
        /\ call.raised = "none"
        /\ \A i \in Resolved("dir") :
              /\ is_dir(fs, Child(fix, call.other[i]))
              /\ fs[Child(fix, call.other[i])].stub = "rendered"
              /\ \E k \in 1..Len(NewCmds) :
                    /\ NewCmds[k].target = fix \o "_children"
                    /\ NewCmds[k].operation = "src_add"
                    /\ InSeq(StubPath(call.other[i]), NewCmds[k].sources)

\* C4: += on a single path that resolves to nothing on disk appends exactly
\* one record, a files add whose sources hold the path as it was given.
C4_AddNewFile ==
    (call.op = "iadd" /\ Len(call.other) = 1 /\ Resolved("absent") = {1}) =>
        /\ Len(NewCmds) = 1
        /\ NewCmds[1].target = fix \o "_files"
        /\ NewCmds[1].operation = "src_add"
        /\ InSeq(PosixStr(Parts(call.other[1])), NewCmds[1].sources)

\* C5: -= on a single path that resolves to an empty directory appends
\* exactly one record, a children remove naming the directory's build stub,
\* and the directory is gone after the call.
C5_RemoveEmptyDir ==
    (/\ call.op = "isub" /\ Len(call.other) = 1
     /\ IsEmptyDir(call.pre, Child(fix, call.other[1]))) =>
        /\ Len(NewCmds) = 1
        /\ NewCmds[1].target = fix \o "_children"
        /\ NewCmds[1].operation = "src_rem"
        /\ NewCmds[1].sources = <<StubPath(call.other[1])>>
        /\ ~exists(fs, Child(fix, call.other[1]))

\* C6: -= on a path that resolves to a non-empty directory issues a
\* warning, leaves the directory as it was, goes on to the end of the list,
\* and the children remove record it appends names the directory's stub.
C6_RemoveNonEmptyDir ==
    \A i \in 1..Len(call.other) :
        (/\ call.op = "isub"
         /\ is_dir(call.pre, Child(fix, call.other[i]))
         /\ ~IsEmptyDir(call.pre, Child(fix, call.other[i]))) =>
            /\ Len(call.warnings) >= 1
            /\ fs[Child(fix, call.other[i])] = call.pre[Child(fix, call.other[i])]
            /\ call.raised = "none"
            /\ \E k \in 1..Len(NewCmds) :
                  /\ NewCmds[k].target = fix \o "_children"
                  /\ NewCmds[k].operation = "src_rem"
                  /\ InSeq(StubPath(call.other[i]), NewCmds[k].sources)

\* C7: -= on a path that resolves to a plain file puts the path as given
\* among the sources of a files remove record and leaves the file as it
\* was; given that path alone, the call appends that one record only.
C7_RemoveFileKeepsFile ==
    (call.op = "isub" /\ Resolved("file") # {}) =>
        /\ \A i \in Resolved("file") :
              /\ fs[Child(fix, call.other[i])] = call.pre[Child(fix, call.other[i])]
              /\ \E k \in 1..Len(NewCmds) :
                    /\ NewCmds[k].target = fix \o "_files"
                    /\ NewCmds[k].operation = "src_rem"
                    /\ InSeq(PosixStr(Parts(call.other[i])), NewCmds[k].sources)
        /\ Len(call.other) = 1 =>
              /\ Len(NewCmds) = 1
              /\ NewCmds[1].sources = <<PosixStr(Parts(call.other[1]))>>

\* C7 witness: -= ['bar.py'] on a Rewriter for 'source' whose package
\* directory holds the file bar.py appended one record.
C7_Witness ==
    /\ call.op = "isub" /\ fix = "source"
    /\ call.other = <<"bar.py">>
    /\ is_file(call.pre, <<Target, Name, "bar.py">>)
    /\ is_file(fs, <<Target, Name, "bar.py">>)
    /\ Len(NewCmds) = 1
    /\ NewCmds[1].target = "source_files"

\* C8: -= on a single path that resolves to nothing on disk issues a
\* RuntimeWarning and appends no record.
C8_RemoveMissingWarns ==
    (call.op = "isub" /\ Len(call.other) = 1 /\ Resolved("absent") = {1}) =>
        /\ Len(call.warnings) >= 1
        /\ NewCmds = <<>>

(***************************************************************************)
(* Claims about report_missing                                             *)
(***************************************************************************)
\* The call got past PKG-INFO and its Name header and the package and
\* tests directories could be listed or, the tests directory, were absent:
\* the call ran to its end.
Completed == result.outcome # "none" /\ result.stage = "done"
\* The schema names of the project directory, PKG-INFO aside, that are
\* absent from it.
AbsentRootFiles ==
    {n \in Range(root_files) \ {"PKG-INFO"} : ~exists(fs, <<Target, n>>)}

\* C9: with a required root file absent, a call made with strict ends
\* fatally and returns nothing; a call made without strict returns a
\* result in which that file is not among the found root files.
C9_StrictEscalates ==
    (Completed /\ ~result.use_tap /\ AbsentRootFiles # {}) =>
        /\ result.strict => result.outcome \in {"raise", "exit"}
        /\ ~result.strict =>
              /\ result.outcome = "return"
              /\ \A n \in AbsentRootFiles : ~InSeq(n, result.found_root_files)

\* The number of names of a schema list that are not in a found list.
NotFound(schema, found) ==
    Cardinality({i \in 1..Len(schema) : ~InSeq(schema[i], found)})
\* found keeps schema's order and names nothing else.
InSchemaOrder(found, schema) ==
    found = SelectSeq(schema, LAMBDA n : InSeq(n, found))

\* C10: when the three loops have run, each found list is a sublist of its
\* schema list in schema order, a schema name is in it exactly when
\* something exists at the name's resolved path, and miss_count is the
\* number of schema names, over the three lists, in no found list.
C10_FoundOrMissing ==
    Completed =>
        /\ InSchemaOrder(result.found_root_files, root_files)
        /\ InSchemaOrder(result.found_source_files, source_files)
        /\ InSchemaOrder(result.found_test_files, test_files)
        /\ \A n \in Range(root_files) :
              InSeq(n, result.found_root_files) <=> exists(fs, <<Target, n>>)
        /\ \A n \in Range(source_files) :
              InSeq(n, result.found_source_files)
                  <=> exists(fs, <<Target, Name, n>>)
        /\ \A n \in Range(test_files) :
              InSeq(n, result.found_test_files)
                  <=> exists(fs, <<Target, Tests, n>>)
        /\ result.miss_count =
              NotFound(root_files, result.found_root_files)
              + NotFound(source_files, result.found_source_files)
              + NotFound(test_files, result.found_test_files)

\* C10 witness: a returned result with the first package file missing, the
\* second found, the tests directory absent and a root file missing.
C10_Witness ==
    /\ Completed /\ result.outcome = "return"
    /\ result.found_source_files = <<source_files[2]>>
    /\ ~exists(fs, <<Target, Tests>>)
    /\ result.found_root_files = <<"PKG-INFO">>
    /\ result.miss_count = 3

\* The regular files lying in a directory of the tree; none if the
\* directory is not there.
OnDisk(base) ==
    {n \in {p[Len(p)] : p \in DOMAIN fs} : is_file(fs, base \o <<n>>)}
\* The names in exactly one of a set and a list.
InExactlyOne(disk, found) ==
    {n \in disk \cup Range(found) : ~(n \in disk /\ InSeq(n, found))}
ExtrasAgree ==
    /\ result.extra_root_files =
          InExactlyOne(OnDisk(<<Target>>), result.found_root_files)
    /\ result.extra_source_files =
          InExactlyOne(OnDisk(<<Target, Name>>), result.found_source_files)
    /\ result.extra_test_files =
          InExactlyOne(OnDisk(<<Target, Tests>>), result.found_test_files)
\* The extra set the tree as it is now calls for: the names that are a
\* regular file in the directory or a schema name that exists there, and
\* not both.
ExtraOf(base, schema) ==
    {n \in OnDisk(base) \cup Range(schema) :
        is_file(fs, base \o <<n>>)
            # (InSeq(n, schema) /\ exists(fs, base \o <<n>>))}
\* The call got to the listing of the tests directory.
ListedTests ==
    result.outcome # "none" /\ result.stage \in {"listdir_tests", "done"}

\* C11: when the call has run to its end, each category's extra set is the
\* symmetric difference of the regular files in the category's directory
\* and its found list; a call that gets to the listing of an absent tests
\* directory runs to its end with no test file on disk, it does not raise;
\* and the sets the call before it computed, whatever its arguments, are
\* the sets the tree calls for now, those of this call: the tree is as that
\* call found it.
C11_ExtraSymmetricDifference ==
    /\ Completed =>
          /\ ExtrasAgree
          /\ \A e \in result.earlier :
                /\ e.extras = <<ExtraOf(<<Target>>, root_files),
                                ExtraOf(<<Target, Name>>, source_files),
                                ExtraOf(<<Target, Tests>>, test_files)>>
                /\ e.extras = <<result.extra_root_files,
                                result.extra_source_files,
                                result.extra_test_files>>
    /\ (ListedTests /\ ~exists(fs, <<Target, Tests>>)) =>
          /\ Completed
          /\ result.extra_test_files = {}

\* C11 witness: a result whose extra sets hold a file that is on disk but
\* not expected and a schema name that was found but is no regular file,
\* the tests directory being absent, computed a second time and with
\* another use_tap than the first time.
C11_Witness ==
    /\ Completed
    /\ \E e \in result.earlier : e.use_tap # result.use_tap
    /\ ~exists(fs, <<Target, Tests>>)
    /\ result.extra_test_files = {}
    /\ ExtraName \in result.extra_root_files
    /\ is_dir(fs, <<Target, Name, "py.typed">>)
    /\ "py.typed" \in result.extra_source_files

(***************************************************************************)
(* Claims about pkg_info_extra                                             *)
(***************************************************************************)
\* The payload is the marker line followed by one or more lines, all of
\* them classifier lines whose value the grammar accepts whole, and
\* pkg_info_extra was asked for the mapping.
WellFormedCall ==
    /\ parsed.outcome # "none" /\ ~parsed.as_message
    /\ payload.marker /\ Len(payload.lines) >= 1
    /\ \A i \in 1..Len(payload.lines) :
          /\ payload.lines[i] \in ClassifierLines
          /\ payload.lines[i].value
                \in ExpressionValues \cup {"LICENSE", "LICENSE.txt"}
\* The value of the last line of the payload that has the key.
LastValue(k) ==
    LET last == CHOOSE i \in 1..Len(payload.lines) :
                    /\ payload.lines[i].key = k
                    /\ \A j \in (i + 1)..Len(payload.lines) :
                          payload.lines[j].key # k
    IN  payload.lines[last].value

\* C12: for a marker line followed by one or more classifier lines,
\* pkg_info_extra returns a mapping whose keys are the keys of those lines,
\* each with the value of the last line that has the key.
C12_LastOccurrenceWins ==
    WellFormedCall =>
        /\ parsed.outcome = "return"
        /\ {parsed.value[i][1] : i \in 1..Len(parsed.value)}
              = {payload.lines[i].key : i \in 1..Len(payload.lines)}
        /\ \A i \in 1..Len(parsed.value) :
              parsed.value[i][2] = LastValue(parsed.value[i][1])

(***************************************************************************)
(* Further claims about Rewriter.__iadd__ and Rewriter.__isub__            *)
(***************************************************************************)
\* C13: every record in commands has at least one source: a builder that
\* was given no path is not appended.
C13_OnlyActiveEmitted ==
    \A k \in 1..Len(commands) : Len(commands[k].sources) >= 1

\* C13 witness: after += and -= on a Rewriter that started with no
\* commands, the -= having filled one of its two builders only.
C13_Witness ==
    /\ call.op = "isub" /\ call.ncmds = 1
    /\ Len(call.other) = 2
    /\ Len(NewCmds) = 1
    /\ NewCmds[1].target = fix \o "_children"

\* The paths of the tree below a directory.
Below(dir) ==
    {p \in DOMAIN fs : Len(p) > Len(dir) /\ SubSeq(p, 1, Len(dir)) = dir}

\* C14: -= changes the tree only at the paths resolved for its own
\* category: with 'test' nothing below <target>/<name>/ changes, and with
\* 'source' nothing below <target>/tests/ changes.
C14_RemovesOwnCategoryOnly ==
    call.op = "isub" =>
        /\ \A p \in DOMAIN fs :
              fs[p] # call.pre[p] =>
                  \E i \in 1..Len(call.other) : p = Child(fix, call.other[i])
        /\ fix = "test" =>
              \A p \in Below(<<Target, Name>>) : fs[p] = call.pre[p]
        /\ fix = "source" =>
              \A p \in Below(<<Target, Tests>>) : fs[p] = call.pre[p]

\* The directories a -= call removed while it went through the paths
\* before the one it was at when it ended: those it handed to rmdir that
\* were empty directories.
RemovedEarlier ==
    {p \in DOMAIN fs :
        /\ call.op = "isub" /\ AttemptsRmdir(fix)
        /\ IsEmptyDir(call.pre, p)
        /\ \E j \in 1..(call.last - 1) : p = RmdirPath(fix, call.other[j])}

\* C15: a += or -= call that ends with an exception at its i-th path
\* leaves commands exactly as it was before the call, and the tree as the
\* paths before the i-th left it: what they removed stays removed and
\* nothing else has changed.
C15_AbortKeepsCommands ==
    (call.op # "none" /\ call.raised # "none") =>
        /\ commands = call.precmds
        /\ \A p \in DOMAIN fs :
              fs[p] = IF p \in RemovedEarlier THEN Absent ELSE call.pre[p]

\* C15 witness: a -= that removed a directory for its first path and was
\* ended by the warning raised for its second, after a += had appended a
\* record.
C15_Witness ==
    /\ call.op = "isub" /\ call.raised = "RuntimeWarning"
    /\ call.last = 2
    /\ RemovedEarlier # {}
    /\ Len(call.precmds) = 1
    /\ commands = call.precmds

(***************************************************************************)
(* A further claim about RewriteCommand                                    *)
(***************************************************************************)
\* C16: an add/rem call refused with ValueError is not undone: the target
\* is what it was, but the call's source is at the end of sources, the
\* operation is the call's own and the instance is active.
C16_ConflictNotRolledBack ==
    (cmdcall.op # "none" /\ cmdcall.raised = "ValueError") =>
        /\ cmd.target = cmdcall.before.target
        /\ cmd.sources = cmdcall.before.sources \o <<cmdcall.source>>
        /\ cmd.operation = (IF cmdcall.op = "add" THEN "src_add" ELSE "src_rem")
        /\ cmd.active

\* C16 witness: a rem refused on an instance bound by an add: the source
\* list has grown and the operation has turned from src_add to src_rem.
C16_Witness ==
    /\ cmdcall.op = "rem" /\ cmdcall.raised = "ValueError"
    /\ cmdcall.before.operation = "src_add"
    /\ cmdcall.before.target = "test_children"
    /\ cmd.operation = "src_rem"
    /\ Len(cmd.sources) = Len(cmdcall.before.sources) + 1

====
